---- MODULE Spec2Model ----
(***************************************************************************)
(* Client side of FedLab's communication layer.                            *)
(*                                                                         *)
(*   - fedlab/core/client/manager.py: ClientManager.setup and the main     *)
(*     loops of ClientPassiveManager and ClientActiveManager, one action   *)
(*     per blocking step (receive, train, send) of a loop iteration.       *)
(*   - fedlab/core/communicator/compressor.py: TopkCompressor.             *)
(*                                                                         *)
(* The coordinator (rank 0), the trainer and the transport are the         *)
(* environment: what a receive returns, and whether a receive, a train or  *)
(* a send raises, is chosen nondeterministically.                          *)
(*                                                                         *)
(* A second view runs the main loops as processes with a FIFO channel from *)
(* rank 0 to each of them, over a transport and a trainer that do not      *)
(* fail: one process for termination, two for their independence.          *)
(***************************************************************************)
EXTENDS Integers, Sequences, FiniteSets, TLC

(* ------------------------------ bounds --------------------------------- *)

\* receives of one session that the coordinator answers
MaxRecv == 3
\* round counters the coordinator sends: 0..MaxCounter
MaxCounter == 3
\* parameter tokens the coordinator sends: 0..MaxParam
MaxParam == 0
\* trainer.client_num: 1..MaxClientNum
MaxClientNum == 1

\* envelopes from rank 0 to one client in flight at a time: 0..MaxInbox
MaxInbox == 1

\* elements of a tensor handed to the codec: 0..MaxNumel
MaxNumel == 3
\* (name, parameter) pairs of one initialize call: 1..MaxNamed
MaxNamed == 1

(* ------------------------------ envelopes ------------------------------ *)

\* MessageCode (fedlab/utils/message_code.py); "Unknown" stands for a value
\* outside the enumeration.
MessageCode == {"SetUp", "ParameterUpdate", "ParameterRequest", "Exit"}
ReceivedCodes == MessageCode \cup {"Unknown"}

None == -1

Params == 0..MaxParam
Counters == 0..MaxCounter

\* content lists a ParameterUpdate from rank 0 can carry: nothing,
\* [parameters], [parameters, round counter]
UpdatePayloads ==
    {<<>>} \cup {<<p>> : p \in Params} \cup {<<p, c>> : p \in Params, c \in Counters}

\* Package(message_code, content)
Package(code, content) == [kind |-> code, payload |-> content]

\* what recv_package(src=0) can return
Incoming ==
    {Package("ParameterUpdate", pl) : pl \in UpdatePayloads}
        \cup {Package(k, <<>>) : k \in ReceivedCodes \ {"ParameterUpdate"}}

VARIABLES
    variant,          \* "passive": ClientPassiveManager, "active": ClientActiveManager
    pc,               \* position of the client process
    client_num,       \* trainer.client_num
    model_parameters, \* trainer.model_parameters
    model_time,       \* ClientActiveManager.model_time
    sent,             \* envelopes handed to send_package, in order, with dst
    rcvd,             \* envelopes returned by recv_package, in order
    trained,          \* parameters handed to trainer.train, in order
    closed,           \* calls of close_network_connection
    err               \* the exception that ended run, "none" while there is none

VARIABLES
    ratio_arg,        \* the compress_ratio the TopkCompressor was constructed with
    codec,            \* the TopkCompressor: compress_ratio and attributes
    mirror,           \* a second TopkCompressor that is handed the same calls
    op,               \* the last call: "new", "initialize", "compress", "decompress", "decompress_any"
    orig,             \* the tensor handed to the last compress
    called,           \* the name handed to the last compress
    again,            \* orig was the output of the round trip before, same name
    out,              \* what the last call raised, compress returned, decompress returned
    mirror_out        \* the same for mirror

codecVars == <<ratio_arg, codec, mirror, op, orig, called, again, out, mirror_out>>

clientVars ==
    <<variant, pc, client_num, model_parameters, model_time, sent, rcvd, trained,
      closed, err>>

VARIABLES
    procs,            \* ranks of the client processes that run side by side
    role,             \* per rank: "passive" or "active"
    loc,              \* per rank: position of the process in main_loop
    times,            \* per rank: ClientActiveManager.model_time of that process
    got,              \* per rank: the envelope recv_package returned last
    inbox,            \* per rank: envelopes from rank 0 in flight, in order
    outbox,           \* per rank: the envelope handed to send_package last
    menu              \* the envelopes rank 0 sends in this federation

fleetVars == <<procs, role, loc, times, got, inbox, outbox, menu>>

vars == <<clientVars, codecVars, fleetVars>>

(* ------------------------------ helpers -------------------------------- *)

\* PackageProcessor.send_package(pack, dst)
send_package(pack, dst) == sent' = Append(sent, [kind |-> pack.kind, dst |-> dst, payload |-> pack.payload])

\* an exception leaves main_loop and run: nothing after the raise is executed
Raise(e) ==
    /\ pc' = "error"
    /\ err' = e

ClientInit ==
    /\ variant \in {"passive", "active"}
    /\ pc = "run"
    /\ client_num \in 1..MaxClientNum
    /\ model_parameters = None
    /\ model_time = None
    /\ sent = <<>>
    /\ rcvd = <<>>
    /\ trained = <<>>
    /\ closed = 0
    /\ err = "none"

(* ------------------------- ClientManager.setup ------------------------- *)

\* setup(): connect, then send SetUp with [client_num] to rank 0
setup(next) ==
    \/ /\ send_package(Package("SetUp", <<client_num>>), 0)
       /\ pc' = next
       /\ UNCHANGED err
    \/ /\ Raise("TransportFailure")
       /\ UNCHANGED sent

(* ------------------------ ClientPassiveManager ------------------------- *)

\* run() with the handshake left out: main_loop is entered at once
PassiveRunNoSetup ==
    /\ variant = "passive"
    /\ pc = "run"
    /\ pc' = "await"
    /\ UNCHANGED <<variant, client_num, model_parameters, model_time, sent, rcvd, trained, closed, err>>
    /\ UNCHANGED <<codecVars, fleetVars>>

\* run(): self.setup(); then main_loop
PassiveRun ==
    /\ variant = "passive"
    /\ pc = "run"
    /\ setup("await")
    /\ UNCHANGED <<variant, client_num, model_parameters, model_time, rcvd, trained, closed>>
    /\ UNCHANGED <<codecVars, fleetVars>>

\* the dispatch with the else branch skipping the package instead of raising
PassiveDispatchLenient(pack) ==
    IF pack.kind = "Exit"
      THEN pc' = "close" /\ UNCHANGED err
    ELSE IF pack.kind = "ParameterUpdate"
      THEN IF Len(pack.payload) >= 1
             THEN pc' = "train" /\ UNCHANGED err
             ELSE Raise("IndexError")
    ELSE pc' = "await" /\ UNCHANGED err

\* main_loop: the dispatch on message_code of a received package;
\* model_parameters = payload[0] raises IndexError on an empty content list
PassiveDispatch(pack) ==
    IF pack.kind = "Exit"
      THEN pc' = "close" /\ UNCHANGED err
    ELSE IF pack.kind = "ParameterUpdate"
      THEN IF Len(pack.payload) >= 1
             THEN pc' = "train" /\ UNCHANGED err
             ELSE Raise("IndexError")
    ELSE Raise("ValueError")

\* main_loop: recv_package(src=0), then the dispatch
PassiveRecv ==
    /\ variant = "passive"
    /\ pc = "await"
    /\ \/ /\ Len(rcvd) < MaxRecv
          /\ \E pack \in Incoming :
                /\ rcvd' = Append(rcvd, pack)
                /\ PassiveDispatch(pack)
       \/ /\ Raise("TransportFailure")
          /\ UNCHANGED rcvd
    /\ UNCHANGED <<variant, client_num, model_parameters, model_time, sent, trained, closed>>
    /\ UNCHANGED <<codecVars, fleetVars>>

\* main_loop: self._trainer.train(model_parameters=payload[0])
PassiveTrain ==
    /\ variant = "passive"
    /\ pc = "train"
    /\ LET p == rcvd[Len(rcvd)].payload[1] IN
         /\ trained' = Append(trained, p)
         /\ \/ /\ model_parameters' = p
               /\ pc' = "sync"
               /\ UNCHANGED err
            \/ /\ Raise("TrainError")
               /\ UNCHANGED model_parameters
    /\ UNCHANGED <<variant, client_num, model_time, sent, rcvd, closed>>
    /\ UNCHANGED <<codecVars, fleetVars>>

\* synchronize() that builds the package and never sends it
PassiveSynchronizeSilent ==
    /\ variant = "passive"
    /\ pc = "sync"
    /\ pc' = "await"
    /\ UNCHANGED <<variant, client_num, model_parameters, model_time, sent, rcvd, trained, closed, err>>
    /\ UNCHANGED <<codecVars, fleetVars>>

\* synchronize(): send ParameterUpdate with the trainer's parameters
PassiveSynchronize ==
    /\ variant = "passive"
    /\ pc = "sync"
    /\ \/ /\ send_package(Package("ParameterUpdate", <<model_parameters>>), 0)
          /\ pc' = "await"
          /\ UNCHANGED err
       \/ /\ Raise("TransportFailure")
          /\ UNCHANGED sent
    /\ UNCHANGED <<variant, client_num, model_parameters, model_time, rcvd, trained, closed>>
    /\ UNCHANGED <<codecVars, fleetVars>>

\* the connection closed in main_loop on Exit and again in run()
PassiveCloseTwice ==
    /\ variant = "passive"
    /\ pc = "close"
    /\ closed' = closed + 2
    /\ pc' = "stopped"
    /\ UNCHANGED <<variant, client_num, model_parameters, model_time, sent, rcvd, trained, err>>
    /\ UNCHANGED <<codecVars, fleetVars>>

\* run() that returns after main_loop without closing the connection
PassiveCloseSkipped ==
    /\ variant = "passive"
    /\ pc = "close"
    /\ pc' = "stopped"
    /\ UNCHANGED <<variant, client_num, model_parameters, model_time, sent, rcvd, trained, closed, err>>
    /\ UNCHANGED <<codecVars, fleetVars>>

\* run(): self._network.close_network_connection() after main_loop returned
PassiveClose ==
    /\ variant = "passive"
    /\ pc = "close"
    /\ closed' = closed + 1
    /\ pc' = "stopped"
    /\ UNCHANGED <<variant, client_num, model_parameters, model_time, sent, rcvd, trained, err>>
    /\ UNCHANGED <<codecVars, fleetVars>>

(* ------------------------- ClientActiveManager ------------------------- *)

\* NetworkManager.run() (fedlab/core/network_manager.py), which
\* ClientActiveManager inherits: setup(), then main_loop
ActiveRun ==
    /\ variant = "active"
    /\ pc = "run"
    /\ setup("request")
    /\ UNCHANGED <<variant, client_num, model_parameters, model_time, rcvd, trained, closed>>
    /\ UNCHANGED <<codecVars, fleetVars>>

\* the request sent before the loop instead of in it: only the first
\* iteration sends one
ActiveRequestOnce ==
    /\ variant = "active"
    /\ pc = "request"
    /\ IF rcvd = <<>>
         THEN send_package(Package("ParameterRequest", <<>>), 0)
         ELSE UNCHANGED sent
    /\ pc' = "await"
    /\ UNCHANGED <<variant, client_num, model_parameters, model_time, rcvd, trained, closed, err>>
    /\ UNCHANGED <<codecVars, fleetVars>>

\* the request sent twice in one iteration
ActiveRequestTwice ==
    /\ variant = "active"
    /\ pc = "request"
    /\ sent' = sent \o << [kind |-> "ParameterRequest", dst |-> 0, payload |-> <<>>],
                          [kind |-> "ParameterRequest", dst |-> 0, payload |-> <<>>] >>
    /\ pc' = "await"
    /\ UNCHANGED <<variant, client_num, model_parameters, model_time, rcvd, trained, closed, err>>
    /\ UNCHANGED <<codecVars, fleetVars>>

\* main_loop: send ParameterRequest (no content) to rank 0
ActiveRequest ==
    /\ variant = "active"
    /\ pc = "request"
    /\ \/ /\ send_package(Package("ParameterRequest", <<>>), 0)
          /\ pc' = "await"
          /\ UNCHANGED err
       \/ /\ Raise("TransportFailure")
          /\ UNCHANGED sent
    /\ UNCHANGED <<variant, client_num, model_parameters, model_time, rcvd, trained, closed>>
    /\ UNCHANGED <<codecVars, fleetVars>>

\* a dispatch that stores the counter of the first ParameterUpdate only
ActiveDispatchSetOnce(pack) ==
    IF pack.kind = "Exit"
      THEN pc' = "close" /\ UNCHANGED <<err, model_time>>
    ELSE IF pack.kind = "ParameterUpdate"
      THEN IF Len(pack.payload) >= 2
             THEN /\ model_time' = IF model_time = None THEN pack.payload[2] ELSE model_time
                  /\ pc' = "train"
                  /\ UNCHANGED err
             ELSE Raise("IndexError") /\ UNCHANGED model_time
    ELSE Raise("ValueError") /\ UNCHANGED model_time

\* a dispatch that unpacks the counter into a local name, not into self
ActiveDispatchNoStore(pack) ==
    IF pack.kind = "Exit"
      THEN pc' = "close" /\ UNCHANGED <<err, model_time>>
    ELSE IF pack.kind = "ParameterUpdate"
      THEN IF Len(pack.payload) >= 2
             THEN /\ pc' = "train"
                  /\ UNCHANGED <<err, model_time>>
             ELSE Raise("IndexError") /\ UNCHANGED model_time
    ELSE Raise("ValueError") /\ UNCHANGED model_time

\* a dispatch that reads payload[1] only when it is there
ActiveDispatchShort(pack) ==
    IF pack.kind = "Exit"
      THEN pc' = "close" /\ UNCHANGED <<err, model_time>>
    ELSE IF pack.kind = "ParameterUpdate"
      THEN IF Len(pack.payload) >= 1
             THEN /\ model_time' = IF Len(pack.payload) >= 2 THEN pack.payload[2] ELSE model_time
                  /\ pc' = "train"
                  /\ UNCHANGED err
             ELSE Raise("IndexError") /\ UNCHANGED model_time
    ELSE Raise("ValueError") /\ UNCHANGED model_time

\* main_loop: the dispatch on message_code of a received package;
\* model_parameters, self.model_time = payload[0], payload[1] evaluates both
\* subscripts before it assigns
ActiveDispatch(pack) ==
    IF pack.kind = "Exit"
      THEN pc' = "close" /\ UNCHANGED <<err, model_time>>
    ELSE IF pack.kind = "ParameterUpdate"
      THEN IF Len(pack.payload) >= 2
             THEN /\ model_time' = pack.payload[2]
                  /\ pc' = "train"
                  /\ UNCHANGED err
             ELSE Raise("IndexError") /\ UNCHANGED model_time
    ELSE Raise("ValueError") /\ UNCHANGED model_time

\* main_loop: recv_package(src=0), then the dispatch
ActiveRecv ==
    /\ variant = "active"
    /\ pc = "await"
    /\ \/ /\ Len(rcvd) < MaxRecv
          /\ \E pack \in Incoming :
                /\ rcvd' = Append(rcvd, pack)
                /\ ActiveDispatch(pack)
       \/ /\ Raise("TransportFailure")
          /\ UNCHANGED <<rcvd, model_time>>
    /\ UNCHANGED <<variant, client_num, model_parameters, sent, trained, closed>>
    /\ UNCHANGED <<codecVars, fleetVars>>

\* main_loop: self._trainer.train(model_parameters=payload[0])
ActiveTrain ==
    /\ variant = "active"
    /\ pc = "train"
    /\ LET p == rcvd[Len(rcvd)].payload[1] IN
         /\ trained' = Append(trained, p)
         /\ \/ /\ model_parameters' = p
               /\ pc' = "sync"
               /\ UNCHANGED err
            \/ /\ Raise("TrainError")
               /\ UNCHANGED model_parameters
    /\ UNCHANGED <<variant, client_num, model_time, sent, rcvd, closed>>
    /\ UNCHANGED <<codecVars, fleetVars>>

\* a reply counter kept locally: the number of rounds trained so far
ReplyTimeLocal == Len(trained)

\* synchronize(): the second content of the reply, self.model_time + 1
ReplyTime == model_time + 1

\* synchronize(): send ParameterUpdate with [model_parameters, model_time + 1];
\* None + 1 is a TypeError
ActiveSynchronize ==
    /\ variant = "active"
    /\ pc = "sync"
    /\ \/ /\ IF model_time = None
               THEN Raise("TypeError") /\ UNCHANGED sent
               ELSE /\ send_package(Package("ParameterUpdate", <<model_parameters, ReplyTime>>), 0)
                    /\ pc' = "request"
                    /\ UNCHANGED err
       \/ /\ Raise("TransportFailure")
          /\ UNCHANGED sent
    /\ UNCHANGED <<variant, client_num, model_parameters, model_time, rcvd, trained, closed>>
    /\ UNCHANGED <<codecVars, fleetVars>>

\* NetworkManager.run(): the connection is closed after main_loop returned
ActiveClose ==
    /\ variant = "active"
    /\ pc = "close"
    /\ closed' = closed + 1
    /\ pc' = "stopped"
    /\ UNCHANGED <<variant, client_num, model_parameters, model_time, sent, rcvd, trained, err>>
    /\ UNCHANGED <<codecVars, fleetVars>>

(* ---------------------------- TopkCompressor --------------------------- *)

\* A ratio is a fraction <<numerator, denominator>> with denominator > 0; the
\* code holds it as a float.
RatioArgs ==
    { <<-1, 2>>, <<0, 1>>, <<1, 4>>, <<1, 2>>, <<1, 1>>, <<2, 1>>, <<4, 1>> }

LessEqOne(r) == r[1] <= r[2]
\* compress_ratio <= 1.0
LessOneInclusive(r) == r[1] <= r[2]

LessOne(r) == r[1] < r[2]
Reciprocal(r) == <<r[2], r[1]>>

\* ceil(x / d) for d > 0
CeilDiv(x, d) == -((-x) \div d)

Abs(x) == IF x < 0 THEN -x ELSE x

\* parameter names
Names == {"w", "b"}

\* tensor shapes: one dimension, or two rows
Shapes == {<<n>> : n \in 0..MaxNumel} \cup {<<2, m>> : m \in 1..(MaxNumel \div 2)}

\* tensor.numel()
Numel(shape) == IF Len(shape) = 1 THEN shape[1] ELSE shape[1] * shape[2]

\* element values: a zero, two values of equal magnitude, a larger one
Vals == {-1, 0, 1, 2}

\* a tensor is its shape and its elements in flattened (view(-1)) order
Tensors ==
    UNION { {[shape |-> sh, data |-> d] : d \in [1..Numel(sh) -> Vals]} : sh \in Shapes }

NoTensor == [shape |-> <<>>, data |-> <<>>]
NoPayload == [values |-> <<>>, indices |-> <<>>, name |-> "", shape |-> <<>>]

\* the (name, param) pairs initialize iterates over; of a tensor parameter
\* only the shape is read
NamedParameters ==
    {[name |-> n, is_tensor |-> TRUE, shape |-> sh] : n \in Names, sh \in Shapes}
        \cup {[name |-> n, is_tensor |-> FALSE, shape |-> <<>>] : n \in Names}

NamedLists == UNION {[1..len -> NamedParameters] : len \in 1..MaxNamed}

\* __init__ with the reciprocal taken of every ratio
NormalizeRatioAlways(r) == IF r[1] > 0 THEN Reciprocal(r) ELSE r

\* __init__ clamping a ratio above 1.0 to 1.0
NormalizeRatioClamp(r) == IF LessEqOne(r) THEN r ELSE <<1, 1>>

\* __init__: compress_ratio if compress_ratio <= 1.0 else 1.0 / compress_ratio
NormalizeRatio(r) == IF LessEqOne(r) THEN r ELSE Reciprocal(r)

\* __init__: self.attributes = {}
TopkCompressor(r) == [compress_ratio |-> NormalizeRatio(r), attributes |-> <<>>]

\* int(math.floor(numel * compress_ratio))
TopKSamplesFloor(numel, ratio) == (numel * ratio[1]) \div ratio[2]

\* initialize: int(math.ceil(numel * self.compress_ratio))
TopKSamples(numel, ratio) == CeilDiv(numel * ratio[1], ratio[2])

\* self.attributes[name] = (numel, shape, top_k_samples)
SetAttribute(attributes, name, entry) ==
    [n \in (DOMAIN attributes) \cup {name} |-> IF n = name THEN entry ELSE attributes[n]]

\* initialize(named_parameters): the loop; a parameter that is no tensor
\* raises, the entries stored before it stay
RECURSIVE initialize(_, _)
initialize(self, named_parameters) ==
    IF named_parameters = <<>>
      THEN [self |-> self, raised |-> "none"]
      ELSE LET np == Head(named_parameters) IN
           IF np.is_tensor
             THEN LET numel == Numel(np.shape)
                      top_k_samples == TopKSamples(numel, self.compress_ratio)
                      entry == [numel |-> numel, shape |-> np.shape,
                                top_k_samples |-> top_k_samples]
                  IN  initialize([self EXCEPT !.attributes = SetAttribute(@, np.name, entry)],
                                 Tail(named_parameters))
             ELSE [self |-> self, raised |-> "ValueError"]

Range(f) == {f[i] : i \in DOMAIN f}

\* torch.topk(importance, k, 0, largest=True, sorted=False) selecting the
\* smallest magnitudes
TopkIndicesSmallest(importance, k) ==
    LET n == Len(importance) IN
    { idx \in [1..k -> 0..(n - 1)] :
        /\ \A i, j \in 1..k : i # j => idx[i] # idx[j]
        /\ \A i \in 1..k : \A q \in (0..(n - 1)) \ Range(idx) :
              importance[idx[i] + 1] <= importance[q + 1] }

\* torch.topk(importance, k, 0, largest=True, sorted=False): every index
\* tensor it can return, k distinct 0-based positions none of which holds less
\* than a position left out, in any order (ties and order are the library's)
TopkIndices(importance, k) ==
    LET n == Len(importance) IN
    { idx \in [1..k -> 0..(n - 1)] :
        /\ \A i, j \in 1..k : i # j => idx[i] # idx[j]
        /\ \A i \in 1..k : \A q \in (0..(n - 1)) \ Range(idx) :
              importance[idx[i] + 1] >= importance[q + 1] }

\* importance taken without abs(): the signed values
ImportanceSigned(flat) == flat

\* compress: importance = tensor.abs()
Importance(flat) == [i \in 1..Len(flat) |-> Abs(flat[i])]

\* what a compress or decompress call leaves: the exception, the payload and
\* context of compress, the tensor of decompress
Raised(e) == [raised |-> e, wire |-> NoPayload, dense |-> NoTensor]

\* compress(tensor, name): every outcome; topk rejects k < 0 and k > numel
compress(self, tensor, name) ==
    IF LessOne(self.compress_ratio) /\ name \in DOMAIN self.attributes
      THEN LET flat == tensor.data
               importance == Importance(flat)
               attr == self.attributes[name]
               k == attr.top_k_samples
           IN  IF k < 0 \/ k > Len(flat)
                 THEN {Raised("RuntimeError")}
                 ELSE { [raised |-> "none",
                         wire |-> [values |-> [j \in 1..k |-> flat[indices[j] + 1]],
                                   indices |-> indices,
                                   name |-> name,
                                   shape |-> attr.shape],
                         dense |-> NoTensor] : indices \in TopkIndices(importance, k) }
      ELSE {Raised("ValueError")}

\* index_put_ with accumulate=False: the last write to a position wins
RECURSIVE ScatterLast(_, _, _, _)
ScatterLast(values, indices, pos, n) ==
    IF values = <<>>
      THEN 0
      ELSE LET j == Len(values)
               at == IF indices[j] < 0 THEN indices[j] + n ELSE indices[j]
           IN  IF at = pos
                 THEN values[j]
                 ELSE ScatterLast(SubSeq(values, 1, j - 1), SubSeq(indices, 1, j - 1), pos, n)

\* index_put_([indices], values, accumulate=True) into zeros: the element at
\* 0-based position pos of n; a negative index counts from the end
RECURSIVE Scatter(_, _, _, _)
Scatter(values, indices, pos, n) ==
    IF values = <<>>
      THEN 0
      ELSE LET at == IF Head(indices) < 0 THEN Head(indices) + n ELSE Head(indices) IN
           (IF at = pos THEN Head(values) ELSE 0)
               + Scatter(Tail(values), Tail(indices), pos, n)

\* decompress that scatters whatever name the context carries
decompressUnchecked(self, wire) ==
    LET n == Numel(wire.shape) IN
    IF \E j \in 1..Len(wire.indices) : wire.indices[j] \notin (-n)..(n - 1)
      THEN [raised |-> "IndexError", wire |-> wire, dense |-> NoTensor]
      ELSE [raised |-> "none",
            wire |-> wire,
            dense |-> [shape |-> wire.shape,
                       data |-> [p \in 1..n |-> Scatter(wire.values, wire.indices, p - 1, n)]]]

\* decompress(tensor, ctx): tensor = (values, indices), ctx = (name, shape)
decompress(self, wire) ==
    IF LessOne(self.compress_ratio) /\ wire.name \in DOMAIN self.attributes
      THEN LET n == Numel(wire.shape) IN
           IF \E j \in 1..Len(wire.indices) : wire.indices[j] \notin (-n)..(n - 1)
             THEN [raised |-> "IndexError", wire |-> wire, dense |-> NoTensor]
             ELSE [raised |-> "none",
                   wire |-> wire,
                   dense |-> [shape |-> wire.shape,
                              data |-> [p \in 1..n |-> Scatter(wire.values, wire.indices, p - 1, n)]]]
      ELSE [raised |-> "ValueError", wire |-> wire, dense |-> NoTensor]

\* the tensors handed to compress for a name: of a registered name, those with
\* as many elements as registered
InputsFor(name) ==
    IF name \in DOMAIN codec.attributes
      THEN {t \in Tensors : Numel(t.shape) = codec.attributes[name].numel}
      ELSE Tensors

CodecInit ==
    /\ \E r \in RatioArgs :
          /\ ratio_arg = r
          /\ codec = TopkCompressor(r)
          /\ mirror = TopkCompressor(IF LessEqOne(r) THEN r ELSE Reciprocal(r))
    /\ op = "new"
    /\ orig = NoTensor
    /\ called = ""
    /\ again = FALSE
    /\ out = Raised("none")
    /\ mirror_out = Raised("none")

\* the codec a client that does not compress holds, untouched
CodecIdle ==
    /\ ratio_arg = <<1, 1>>
    /\ codec = TopkCompressor(<<1, 1>>)
    /\ mirror = TopkCompressor(<<1, 1>>)
    /\ op = "new"
    /\ orig = NoTensor
    /\ called = ""
    /\ again = FALSE
    /\ out = Raised("none")
    /\ mirror_out = Raised("none")

\* no client is run beside the codec
ClientIdle ==
    /\ variant = "passive"
    /\ pc = "run"
    /\ client_num = 1
    /\ model_parameters = None
    /\ model_time = None
    /\ sent = <<>>
    /\ rcvd = <<>>
    /\ trained = <<>>
    /\ closed = 0
    /\ err = "none"

\* initialize(named_parameters), on both codecs, before the codec is used
Initialize ==
    /\ op \in {"new", "initialize"}
    /\ \E named_parameters \in NamedLists :
          LET r == initialize(codec, named_parameters)
              m == initialize(mirror, named_parameters)
          IN  /\ codec' = r.self
              /\ mirror' = m.self
              /\ out' = Raised(r.raised)
              /\ mirror_out' = Raised(m.raised)
    /\ op' = "initialize"
    /\ UNCHANGED ratio_arg
    /\ orig' = NoTensor
    /\ called' = ""
    /\ again' = FALSE
    /\ UNCHANGED <<clientVars, fleetVars>>

\* compress(tensor, name) on both codecs; the same topk call (same input,
\* same k) returns the same indices
CompressCall(tensor, name) ==
    /\ \E w \in compress(codec, tensor, name) :
       \E mw \in compress(mirror, tensor, name) :
          /\ (w.raised = "none" /\ mw.raised = "none"
                /\ Len(w.wire.indices) = Len(mw.wire.indices))
               => mw.wire.indices = w.wire.indices
          /\ out' = w
          /\ mirror_out' = mw
    /\ orig' = tensor
    /\ called' = name
    /\ op' = "compress"
    /\ UNCHANGED <<ratio_arg, codec, mirror>>
    /\ UNCHANGED <<clientVars, fleetVars>>

\* compress of a tensor, in the state initialize left: compress and
\* decompress leave the codec as it is, so every call is taken from there
Compress ==
    /\ op \in {"new", "initialize"}
    /\ \E name \in Names : \E tensor \in InputsFor(name) : CompressCall(tensor, name)
    /\ again' = FALSE

\* compress of the tensor the round trip before returned, same name
CompressAgain ==
    /\ op = "decompress"
    /\ out.raised = "none"
    /\ CompressCall(out.dense, out.wire.name)
    /\ again' = TRUE

\* decompress(payload, ctx) of what the last compress returned, on both codecs
Decompress ==
    /\ op = "compress"
    /\ out.raised = "none"
    /\ out' = decompress(codec, out.wire)
    /\ mirror_out' = IF mirror_out.raised = "none"
                       THEN decompress(mirror, mirror_out.wire)
                       ELSE mirror_out
    /\ op' = "decompress"
    /\ UNCHANGED <<ratio_arg, codec, mirror, orig, called, again>>
    /\ UNCHANGED <<clientVars, fleetVars>>

\* the values of a payload that a caller builds by hand
PayloadVals == {-1, 2}

\* the lengths of such a payload: long enough to name a position twice
PayloadLens == {0, 1, 2}

\* the shapes a caller can put in the context of a name: the registered one,
\* any for a name that was never registered
CtxShapes(name) ==
    IF name \in DOMAIN codec.attributes
      THEN {codec.attributes[name].shape}
      ELSE Shapes

\* the (values, indices) payloads for a shape: equal lengths, indices from 0
\* up to one past the last position, any position any number of times
PayloadsFor(shape) ==
    UNION { { [values |-> v, indices |-> i] :
                v \in [1..len -> PayloadVals], i \in [1..len -> 0..Numel(shape)] }
            : len \in PayloadLens }

\* decompress(payload, ctx) of a payload and context that no compress of this
\* codec returned, on both codecs
DecompressAny ==
    /\ op \in {"new", "initialize"}
    /\ \E name \in Names : \E shape \in CtxShapes(name) : \E pl \in PayloadsFor(shape) :
          LET wire == [values |-> pl.values, indices |-> pl.indices,
                       name |-> name, shape |-> shape]
          IN  /\ out' = decompress(codec, wire)
              /\ mirror_out' = decompress(mirror, wire)
              /\ called' = name
    /\ op' = "decompress_any"
    /\ orig' = NoTensor
    /\ again' = FALSE
    /\ UNCHANGED <<ratio_arg, codec, mirror>>
    /\ UNCHANGED <<clientVars, fleetVars>>

(* ----------------- main loops as processes with channels --------------- *)

\* the ranks client processes take; rank 0 is the coordinator
Ranks == {1, 2}

\* no envelope received or sent yet
NoPackage == Package("", <<>>)

\* what rank 0 sends two active clients: Exit, and ParameterUpdate with one
\* of two round counters
FleetMenu ==
    {Package("Exit", <<>>)}
        \cup {Package("ParameterUpdate", <<p, c>>) : p \in Params, c \in {0, 2}}

\* no process is run in this view
FleetIdle ==
    /\ procs = {}
    /\ role = [c \in Ranks |-> "passive"]
    /\ loc = [c \in Ranks |-> "off"]
    /\ times = [c \in Ranks |-> None]
    /\ got = [c \in Ranks |-> NoPackage]
    /\ inbox = [c \in Ranks |-> <<>>]
    /\ outbox = [c \in Ranks |-> NoPackage]
    /\ menu = {}

\* the processes ps at the top of main_loop, with the classes kinds:
\* ClientActiveManager.__init__ has set model_time = None
Entered(ps, kinds) ==
    /\ procs = ps
    /\ role = kinds
    /\ loc = [c \in Ranks |-> IF c \notin ps THEN "off"
                             ELSE IF kinds[c] = "active" THEN "request" ELSE "await"]
    /\ times = [c \in Ranks |-> None]
    /\ got = [c \in Ranks |-> NoPackage]
    /\ inbox = [c \in Ranks |-> <<>>]
    /\ outbox = [c \in Ranks |-> NoPackage]

\* one client of either class, against anything rank 0 can send
ChannelInit ==
    /\ \E v \in {"passive", "active"} :
          Entered({1}, [c \in Ranks |-> IF c = 1 THEN v ELSE "passive"])
    /\ menu = Incoming

\* two active clients
FleetInit ==
    /\ Entered(Ranks, [c \in Ranks |-> "active"])
    /\ menu = FleetMenu

\* rank 0 sends an envelope to client c: the channel is reliable and ordered
Deliver(c) ==
    /\ c \in procs
    /\ Len(inbox[c]) < MaxInbox
    /\ \E pack \in menu : inbox' = [inbox EXCEPT ![c] = Append(@, pack)]
    /\ UNCHANGED <<procs, role, loc, times, got, outbox, menu>>
    /\ UNCHANGED <<clientVars, codecVars>>

\* ClientActiveManager.main_loop: self._request_parameter()
RequestParameter(c) ==
    /\ c \in procs
    /\ role[c] = "active"
    /\ loc[c] = "request"
    /\ outbox' = [outbox EXCEPT ![c] = Package("ParameterRequest", <<>>)]
    /\ loc' = [loc EXCEPT ![c] = "await"]
    /\ UNCHANGED <<procs, role, times, got, inbox, menu>>
    /\ UNCHANGED <<clientVars, codecVars>>

\* a receive that writes the counter to a model_time all processes share
RecvPackageShared(c) ==
    /\ c \in procs
    /\ loc[c] = "await"
    /\ inbox[c] # <<>>
    /\ LET pack == Head(inbox[c]) IN
         /\ inbox' = [inbox EXCEPT ![c] = Tail(@)]
         /\ got' = [got EXCEPT ![c] = pack]
         /\ IF pack.kind = "Exit"
              THEN loc' = [loc EXCEPT ![c] = "stopped"] /\ UNCHANGED times
            ELSE IF pack.kind = "ParameterUpdate"
              THEN IF role[c] = "active"
                     THEN IF Len(pack.payload) >= 2
                            THEN /\ times' = [d \in Ranks |-> pack.payload[2]]
                                 /\ loc' = [loc EXCEPT ![c] = "train"]
                            ELSE loc' = [loc EXCEPT ![c] = "error"] /\ UNCHANGED times
                     ELSE /\ loc' = [loc EXCEPT ![c] = IF Len(pack.payload) >= 1
                                                       THEN "train" ELSE "error"]
                          /\ UNCHANGED times
            ELSE loc' = [loc EXCEPT ![c] = "error"] /\ UNCHANGED times
    /\ UNCHANGED <<procs, role, outbox, menu>>
    /\ UNCHANGED <<clientVars, codecVars>>

\* a receive that goes on to the next iteration on Exit
RecvPackageNoBreak(c) ==
    /\ c \in procs
    /\ loc[c] = "await"
    /\ inbox[c] # <<>>
    /\ LET pack == Head(inbox[c]) IN
         /\ inbox' = [inbox EXCEPT ![c] = Tail(@)]
         /\ got' = [got EXCEPT ![c] = pack]
         /\ IF pack.kind = "Exit"
              THEN /\ loc' = [loc EXCEPT ![c] = IF role[c] = "active" THEN "request" ELSE "await"]
                   /\ UNCHANGED times
            ELSE IF pack.kind = "ParameterUpdate"
              THEN IF role[c] = "active"
                     THEN IF Len(pack.payload) >= 2
                            THEN /\ times' = [times EXCEPT ![c] = pack.payload[2]]
                                 /\ loc' = [loc EXCEPT ![c] = "train"]
                            ELSE loc' = [loc EXCEPT ![c] = "error"] /\ UNCHANGED times
                     ELSE /\ loc' = [loc EXCEPT ![c] = IF Len(pack.payload) >= 1
                                                       THEN "train" ELSE "error"]
                          /\ UNCHANGED times
            ELSE loc' = [loc EXCEPT ![c] = "error"] /\ UNCHANGED times
    /\ UNCHANGED <<procs, role, outbox, menu>>
    /\ UNCHANGED <<clientVars, codecVars>>

\* main_loop of either class: recv_package(src=0) returns the envelope at the
\* head of the channel, then the dispatch on its message code
RecvPackage(c) ==
    /\ c \in procs
    /\ loc[c] = "await"
    /\ inbox[c] # <<>>
    /\ LET pack == Head(inbox[c]) IN
         /\ inbox' = [inbox EXCEPT ![c] = Tail(@)]
         /\ got' = [got EXCEPT ![c] = pack]
         /\ IF pack.kind = "Exit"
              THEN loc' = [loc EXCEPT ![c] = "stopped"] /\ UNCHANGED times
            ELSE IF pack.kind = "ParameterUpdate"
              THEN IF role[c] = "active"
                     THEN IF Len(pack.payload) >= 2
                            THEN /\ times' = [times EXCEPT ![c] = pack.payload[2]]
                                 /\ loc' = [loc EXCEPT ![c] = "train"]
                            ELSE loc' = [loc EXCEPT ![c] = "error"] /\ UNCHANGED times
                     ELSE /\ loc' = [loc EXCEPT ![c] = IF Len(pack.payload) >= 1
                                                       THEN "train" ELSE "error"]
                          /\ UNCHANGED times
            ELSE loc' = [loc EXCEPT ![c] = "error"] /\ UNCHANGED times
    /\ UNCHANGED <<procs, role, outbox, menu>>
    /\ UNCHANGED <<clientVars, codecVars>>

\* main_loop of either class: self._trainer.train(model_parameters=payload[0])
\* returns
Train(c) ==
    /\ c \in procs
    /\ loc[c] = "train"
    /\ loc' = [loc EXCEPT ![c] = "sync"]
    /\ UNCHANGED <<procs, role, times, got, inbox, outbox, menu>>
    /\ UNCHANGED <<clientVars, codecVars>>

\* synchronize() of either class: the active one appends model_time + 1
Synchronize(c) ==
    /\ c \in procs
    /\ loc[c] = "sync"
    /\ IF role[c] = "active"
         THEN IF times[c] = None
                THEN loc' = [loc EXCEPT ![c] = "error"] /\ UNCHANGED outbox
                ELSE /\ outbox' = [outbox EXCEPT ![c] =
                            Package("ParameterUpdate", <<got[c].payload[1], times[c] + 1>>)]
                     /\ loc' = [loc EXCEPT ![c] = "request"]
         ELSE /\ outbox' = [outbox EXCEPT ![c] =
                     Package("ParameterUpdate", <<got[c].payload[1]>>)]
              /\ loc' = [loc EXCEPT ![c] = "await"]
    /\ UNCHANGED <<procs, role, times, got, inbox, menu>>
    /\ UNCHANGED <<clientVars, codecVars>>

\* the next step of the process of rank c
ClientStep(c) == RequestParameter(c) \/ RecvPackage(c) \/ Train(c) \/ Synchronize(c)

Coordinator == \E c \in Ranks : Deliver(c)
Requests == \E c \in Ranks : RequestParameter(c)
Receives == \E c \in Ranks : RecvPackage(c)
Trains == \E c \in Ranks : Train(c)
Synchronizes == \E c \in Ranks : Synchronize(c)

Next ==
    \/ PassiveRun
    \/ PassiveRecv
    \/ PassiveTrain
    \/ PassiveSynchronize
    \/ PassiveClose
    \/ ActiveRun
    \/ ActiveRequest
    \/ ActiveRecv
    \/ ActiveTrain
    \/ ActiveSynchronize
    \/ ActiveClose

CodecNext ==
    \/ Initialize
    \/ Compress
    \/ CompressAgain
    \/ Decompress
    \/ DecompressAny

FleetNext ==
    \/ Coordinator
    \/ Requests
    \/ Receives
    \/ Trains
    \/ Synchronizes

\* a client, its codec unused
Init == ClientInit /\ CodecIdle /\ FleetIdle

\* a codec, no client run beside it
InitCodec == CodecInit /\ ClientIdle /\ FleetIdle

\* one process and its channel
InitChannel == ClientIdle /\ CodecIdle /\ ChannelInit

\* two active processes and their channels
InitFleet == ClientIdle /\ CodecIdle /\ FleetInit

Spec == Init /\ [][Next]_vars

SpecCodec == InitCodec /\ [][CodecNext]_vars

SpecFleet == InitFleet /\ [][FleetNext]_vars

\* every process keeps running: its train and send calls return, and its
\* receive returns once an envelope is in its channel
FairChannel ==
    InitChannel /\ [][FleetNext]_vars /\ \A c \in Ranks : WF_vars(ClientStep(c))

\* run() goes on to close the connection once main_loop has returned: the code
\* is sequential, nothing else is scheduled in between
FairSpec == Spec /\ WF_vars(PassiveClose) /\ WF_vars(ActiveClose)

(* ------------------------- properties: protocol ------------------------ *)

IsUpdate(e) == e.kind = "ParameterUpdate"
IsRequest(e) == e.kind = "ParameterRequest"
IsSetUp(e) == e.kind = "SetUp"

SentUpdates == SelectSeq(sent, IsUpdate)
RcvdUpdates == SelectSeq(rcvd, IsUpdate)
SentRequests == SelectSeq(sent, IsRequest)

ExitReceived == \E i \in 1..Len(rcvd) : rcvd[i].kind = "Exit"
OtherReceived == \E i \in 1..Len(rcvd) : rcvd[i].kind \notin {"ParameterUpdate", "Exit"}

InMainLoop == pc \in {"request", "await", "train", "sync"}
LoopReturned == pc \in {"close", "stopped"}
\* an exception raised inside main_loop: setup had sent its envelope
LoopRaised == pc = "error" /\ sent # <<>>

\* C1: a passive client's sends begin with exactly one SetUp to rank 0; nothing
\* is received and no ParameterUpdate/ParameterRequest is sent before it; the
\* main loop is never entered without it and no second SetUp follows.
HandshakeFirst ==
    variant = "passive" =>
        /\ sent # <<>> => IsSetUp(sent[1]) /\ sent[1].dst = 0
        /\ \A i \in 2..Len(sent) : ~IsSetUp(sent[i])
        /\ rcvd # <<>> => sent # <<>>
        /\ (InMainLoop \/ LoopReturned) => sent # <<>>

HandshakeFirstWitness ==
    /\ variant = "passive"
    /\ Len(sent) >= 3
    /\ Len(rcvd) >= 2
    /\ pc = "stopped"

\* C2 as stated: in the passive main loop the ParameterUpdates sent equal those
\* received (one less while in TRAIN/SYNC), and the loop ends (returns, or is
\* left by its own raise) iff an Exit is received.
PassiveCadenceStated ==
    variant = "passive" =>
        /\ InMainLoop =>
              \/ Len(SentUpdates) = Len(RcvdUpdates)
              \/ pc \in {"train", "sync"} /\ Len(SentUpdates) = Len(RcvdUpdates) - 1
        /\ (LoopReturned \/ (LoopRaised /\ err = "ValueError")) <=> ExitReceived

\* C2 amended: the ParameterUpdates sent equal those received, or are one less
\* while the last round is in TRAIN/SYNC or was ended by an exception (a
\* ParameterUpdate without content, a failing train or send); the loop returns
\* iff an Exit is received, and it is also left, by an exception and with no
\* Exit received, on any other kind or a failing receive, train or send.
PassiveCadence ==
    variant = "passive" =>
        /\ \/ Len(SentUpdates) = Len(RcvdUpdates)
           \/ /\ Len(SentUpdates) = Len(RcvdUpdates) - 1
              /\ \/ pc \in {"train", "sync"}
                 \/ pc = "error" /\ err \in {"IndexError", "TrainError", "TransportFailure"}
        /\ pc \in {"await"} => Len(SentUpdates) = Len(RcvdUpdates)
        /\ LoopReturned <=> ExitReceived
        /\ LoopRaised => ~ExitReceived
        /\ OtherReceived => LoopRaised /\ err = "ValueError"

PassiveCadenceWitness ==
    /\ variant = "passive"
    /\ Len(SentUpdates) = 2
    /\ Len(RcvdUpdates) = 2
    /\ ExitReceived
    /\ pc = "stopped"

\* C3: the i-th ParameterUpdate an active client sends carries, as its second
\* content, 1 + the round counter of the i-th ParameterUpdate it received.
ActiveRoundCounter ==
    variant = "active" =>
        /\ Len(SentUpdates) <= Len(RcvdUpdates)
        /\ \A i \in 1..Len(SentUpdates) :
              /\ Len(SentUpdates[i].payload) = 2
              /\ SentUpdates[i].payload[2] = RcvdUpdates[i].payload[2] + 1

\* two rounds, the second with a smaller counter than the first
ActiveRoundCounterWitness ==
    /\ variant = "active"
    /\ Len(SentUpdates) = 2
    /\ RcvdUpdates[1].payload[2] = 2
    /\ RcvdUpdates[2].payload[2] = 0
    /\ SentUpdates[2].payload[2] = 1

\* C4: once a package of a kind other than ParameterUpdate and Exit has been
\* received, in either variant, the loop has ended with the ValueError, and the
\* step that received it and every later step neither trains nor sends.
UnknownKindRejected ==
    /\ [](OtherReceived => pc = "error" /\ err = "ValueError"
                            /\ ~IsUpdate(rcvd[Len(rcvd)]) /\ rcvd[Len(rcvd)].kind # "Exit")
    /\ [][OtherReceived' => sent' = sent /\ trained' = trained /\ closed' = closed]_vars

UnknownKindRejectedWitness ==
    /\ variant = "active"
    /\ Len(rcvd) = 2
    /\ rcvd[2].kind = "Unknown"
    /\ Len(SentUpdates) = 1
    /\ Len(trained) = 1
    /\ pc = "error"

\* the coordinator answers with one ParameterUpdate, round counter 3, then Exit
OneRoundScenario ==
    /\ variant = "active"
    /\ Len(rcvd) = 2
    /\ IsUpdate(rcvd[1]) /\ Len(rcvd[1].payload) = 2 /\ rcvd[1].payload[2] = 3
    /\ rcvd[2].kind = "Exit"
    /\ LoopReturned

\* C5 as stated: in the scenario the client has sent exactly 2 envelopes and
\* received exactly 2, the handshake excluded, the reply carrying counter 4.
OneRoundTwoSentStated ==
    OneRoundScenario =>
        /\ Len(sent) - 1 = 2
        /\ Len(rcvd) = 2
        /\ Len(SentUpdates) = 1 /\ SentUpdates[1].payload[2] = 4

\* C5 amended: in the scenario the client has sent exactly 3 envelopes after the
\* handshake (ParameterRequest, ParameterUpdate with counter 4,
\* ParameterRequest) and received exactly 2.
OneRoundThreeSent ==
    OneRoundScenario =>
        /\ Len(sent) - 1 = 3
        /\ IsSetUp(sent[1])
        /\ IsRequest(sent[2])
        /\ IsUpdate(sent[3]) /\ sent[3].payload[2] = 4
        /\ IsRequest(sent[4])
        /\ Len(rcvd) = 2

OneRoundWitness == OneRoundScenario /\ pc = "stopped" /\ closed = 1

\* C6: an active client has at most one ParameterRequest that no receive has
\* followed, waits in receive only with one outstanding, and every receive
\* follows a request sent after the previous receive.
RequestResponsePairing ==
    /\ [](variant = "active" =>
            /\ Len(SentRequests) - Len(rcvd) \in {0, 1}
            /\ pc = "await" => Len(SentRequests) = Len(rcvd) + 1)
    /\ [][variant = "active" /\ rcvd' # rcvd =>
            Len(SentRequests) = Len(rcvd) + 1 /\ Len(SentRequests') = Len(rcvd')]_vars

RequestResponsePairingWitness ==
    /\ variant = "active"
    /\ Len(SentRequests) = 3
    /\ Len(rcvd) = 3
    /\ Len(SentUpdates) = 2

\* C7: in either variant an Exit received takes the client out of the loop,
\* the connection is then closed, once, and from the Exit on the client neither
\* trains nor sends nor receives.
ExitShutdown ==
    /\ [](ExitReceived => LoopReturned /\ rcvd[Len(rcvd)].kind = "Exit")
    /\ [](pc = "stopped" => ExitReceived /\ closed = 1)
    /\ [](closed >= 1 => pc = "stopped")
    /\ ExitReceived ~> (pc = "stopped" /\ closed = 1)
    /\ [][ExitReceived => sent' = sent /\ rcvd' = rcvd /\ trained' = trained]_vars

ExitShutdownWitness ==
    /\ variant = "passive"
    /\ pc = "stopped"
    /\ closed = 1
    /\ Len(SentUpdates) = 1
    /\ Len(trained) = 1


(* -------------------------- properties: codec -------------------------- *)

\* the last compress was handed a registered name and a tensor of as many
\* elements as registered, on a codec whose ratio is below 1
RoundTripCase ==
    /\ op \in {"compress", "decompress"}
    /\ LessOne(codec.compress_ratio)
    /\ called \in DOMAIN codec.attributes
    /\ Numel(orig.shape) = codec.attributes[called].numel

\* the output of the round trip: the registered shape; keep_count distinct
\* positions selected, none smaller in magnitude than one left out; the
\* input's element at a selected position, 0 at every other
RoundTripResult ==
    LET attr == codec.attributes[called]
        keep_count == CeilDiv(attr.numel * codec.compress_ratio[1], codec.compress_ratio[2])
        selected == Range(out.wire.indices)
    IN  /\ out.raised = "none"
        /\ out.dense.shape = attr.shape
        /\ Len(out.dense.data) = attr.numel
        /\ Cardinality(selected) = keep_count
        /\ selected \subseteq 0..(attr.numel - 1)
        /\ \A p \in selected : \A q \in (0..(attr.numel - 1)) \ selected :
              Abs(orig.data[p + 1]) >= Abs(orig.data[q + 1])
        /\ \A p \in 0..(attr.numel - 1) :
              out.dense.data[p + 1] = IF p \in selected THEN orig.data[p + 1] ELSE 0

\* C8 as stated: with ratio < 1.0 and a registered name, compress of an array
\* of the registered element count and decompress of its result both return,
\* and the output is the registered shape with the top keep_count elements of
\* the input in place and 0 elsewhere.
TopkRoundTripStated ==
    RoundTripCase =>
        /\ out.raised = "none"
        /\ op = "decompress" => RoundTripResult

\* C8 amended: the same for a ratio in [0, 1.0); with a negative ratio
\* keep_count can be negative and compress raises in topk.
TopkRoundTrip ==
    (RoundTripCase /\ codec.compress_ratio[1] >= 0) =>
        /\ out.raised = "none"
        /\ op = "decompress" => RoundTripResult

\* a round trip that keeps 2 of 3 elements and drops a nonzero one
TopkRoundTripWitness ==
    /\ RoundTripCase
    /\ op = "decompress"
    /\ ~again
    /\ codec.compress_ratio = <<1, 2>>
    /\ orig.data = <<1, -1, 2>>
    /\ out.dense.data = <<0, -1, 2>>

\* C9: compressing the output A' of a round trip again, same name, returns,
\* and decompressing that returns A', whichever positions of equal magnitude
\* topk selects.
RoundTripIdempotent ==
    again =>
        /\ out.raised = "none"
        /\ op = "decompress" => out.dense = orig

\* A' holds more zeros than nonzero elements are kept: topk has to pick among
\* the zeros, and picks one
RoundTripIdempotentWitness ==
    /\ again
    /\ op = "decompress"
    /\ codec.compress_ratio = <<1, 2>>
    /\ orig.data = <<0, 0, 2>>
    /\ \E j \in 1..Len(out.wire.values) : out.wire.values[j] = 0
    /\ out.dense = orig

\* C10: a codec constructed with a ratio r > 1.0 and one constructed with 1/r,
\* handed the same calls, hold the same ratio and the same attributes
\* (keep_count of every name), and every call raises on both or returns the
\* same on both.
RatioNormalization ==
    ~LessEqOne(ratio_arg) =>
        /\ codec.compress_ratio = mirror.compress_ratio
        /\ codec.attributes = mirror.attributes
        /\ out = mirror_out

\* ratio 4.0: 1 of 3 elements kept by the round trip
RatioNormalizationWitness ==
    /\ ratio_arg = <<4, 1>>
    /\ op = "decompress"
    /\ out.raised = "none"
    /\ "w" \in DOMAIN codec.attributes
    /\ codec.attributes["w"].numel = 3
    /\ codec.attributes["w"].top_k_samples = 1
    /\ mirror.attributes["w"].top_k_samples = 1
    /\ out.dense.data = <<0, 0, 2>>
    /\ mirror_out.dense.data = <<0, 0, 2>>

(* ------------------- properties: codec, rejected calls ------------------ *)

\* the last call was a compress or a decompress that the codec has to reject:
\* its ratio is not below 1.0, or the name was never registered
ConfigErrorCase ==
    /\ op \in {"compress", "decompress", "decompress_any"}
    /\ \/ ~(codec.compress_ratio[1] < codec.compress_ratio[2])
       \/ called \notin DOMAIN codec.attributes

\* C11: compress or decompress called with a name never passed to initialize,
\* or on a codec whose ratio is not below 1.0, raises an error and returns no
\* payload and no tensor; and no compress or decompress, accepted or
\* rejected, changes the registered attributes or the ratio
ConfigErrorsRejected ==
    /\ [](ConfigErrorCase =>
            /\ out.raised = "ValueError"
            /\ out.dense = NoTensor
            /\ op = "compress" => out.wire = NoPayload)
    /\ [][op' \in {"compress", "decompress", "decompress_any"}
            => /\ codec'.attributes = codec.attributes
               /\ codec'.compress_ratio = codec.compress_ratio]_vars

\* decompress on a codec of ratio 1/2 that registered "w" only, handed a
\* payload under the name "b", was rejected
ConfigErrorsRejectedWitness ==
    /\ op = "decompress_any"
    /\ codec.compress_ratio = <<1, 2>>
    /\ DOMAIN codec.attributes = {"w"}
    /\ called = "b"
    /\ Len(out.wire.indices) = 2
    /\ out.raised = "ValueError"
    /\ out.dense = NoTensor

(* --------------------- properties: codec, keep count -------------------- *)

\* ceil(numel * ratio) of a ratio num/den, den > 0
CeilOfProduct(numel, ratio) ==
    CHOOSE k \in -(numel * Abs(ratio[1]) + 1)..(numel * Abs(ratio[1]) + 1) :
        /\ k * ratio[2] >= numel * ratio[1]
        /\ (k - 1) * ratio[2] < numel * ratio[1]

\* C12 as stated: every registered entry has top_k_samples = ceil(numel *
\* ratio) and 0 < top_k_samples <= numel, whatever ratio the constructor took
\* and whatever tensor initialize took
KeepCountStated ==
    \A name \in DOMAIN codec.attributes :
        LET attr == codec.attributes[name] IN
        /\ attr.top_k_samples = CeilOfProduct(attr.numel, codec.compress_ratio)
        /\ 0 < attr.top_k_samples
        /\ attr.top_k_samples <= attr.numel

\* C12: every registered entry has top_k_samples = ceil(numel * ratio) and
\* top_k_samples <= numel; 0 < top_k_samples holds exactly when the stored
\* ratio is positive and the tensor has at least one element
KeepCountInvariant ==
    \A name \in DOMAIN codec.attributes :
        LET attr == codec.attributes[name] IN
        /\ attr.top_k_samples = CeilOfProduct(attr.numel, codec.compress_ratio)
        /\ attr.top_k_samples <= attr.numel
        /\ 0 < attr.top_k_samples <=> (codec.compress_ratio[1] > 0 /\ attr.numel > 0)

\* a codec of ratio 1/4 registered a tensor of three elements and keeps one;
\* a second initialize has run since
KeepCountWitness ==
    /\ op = "initialize"
    /\ codec.compress_ratio = <<1, 4>>
    /\ "w" \in DOMAIN codec.attributes
    /\ codec.attributes["w"].numel = 3
    /\ codec.attributes["w"].top_k_samples = 1
    /\ out.raised = "ValueError"

(* --------------- properties: codec, the whole ratio range --------------- *)

\* the last compress was handed a registered name and a tensor of as many
\* elements as registered, on a codec whose ratio lies in (0, 1]
WholeRangeCase ==
    /\ op \in {"compress", "decompress"}
    /\ 0 < codec.compress_ratio[1]
    /\ codec.compress_ratio[1] <= codec.compress_ratio[2]
    /\ called \in DOMAIN codec.attributes
    /\ Numel(orig.shape) = codec.attributes[called].numel

\* C13 as stated: for every ratio in (0, 1], 1.0 included, compress and
\* decompress both return and the output holds the input at the ceil(n * r)
\* selected positions and 0 elsewhere; at ratio 1.0 the output is the input
WholeRangeRoundTripStated ==
    WholeRangeCase =>
        /\ out.raised = "none"
        /\ op = "decompress" =>
              /\ RoundTripResult
              /\ codec.compress_ratio[1] = codec.compress_ratio[2] => out.dense = orig

\* C13: for every ratio in (0, 1) compress and decompress both return and
\* the output holds the input at the ceil(n * r) selected positions and 0
\* elsewhere; at ratio 1.0 compress raises ValueError and returns no payload,
\* so there is nothing to decompress
WholeRangeRoundTrip ==
    WholeRangeCase =>
        IF codec.compress_ratio[1] < codec.compress_ratio[2]
          THEN /\ out.raised = "none"
               /\ op = "decompress" => RoundTripResult
          ELSE /\ op = "compress"
               /\ out.raised = "ValueError"
               /\ out.wire = NoPayload
               /\ out.dense = NoTensor

\* a codec constructed with 1.0 registered three elements, keeps all three,
\* and was handed a tensor of three to compress
WholeRangeRoundTripWitness ==
    /\ WholeRangeCase
    /\ ratio_arg = <<1, 1>>
    /\ codec.attributes[called].top_k_samples = 3
    /\ orig.data = <<1, -1, 2>>
    /\ out.raised = "ValueError"

(* ---------------- properties: the active client's counter --------------- *)

\* the ParameterUpdate envelopes received that carry a counter
IsCounted(e) == e.kind = "ParameterUpdate" /\ Len(e.payload) >= 2
RcvdCounted == SelectSeq(rcvd, IsCounted)

\* the counter of the last such envelope, None before the first
LastCounter ==
    IF RcvdCounted = <<>> THEN None ELSE RcvdCounted[Len(RcvdCounted)].payload[2]

\* this step sent a ParameterUpdate
UpdateSent == sent' # sent /\ IsUpdate(sent'[Len(sent')])

\* C14 as stated: model_time is None until the first ParameterUpdate is
\* received, every send of a ParameterUpdate adds exactly 1 to it, and once
\* set no receipt overwrites it
CounterLifecycleStated ==
    /\ []((variant = "active" /\ RcvdCounted = <<>>) => model_time = None)
    /\ [][(variant = "active" /\ UpdateSent) => model_time' = model_time + 1]_vars
    /\ [][(variant = "active" /\ model_time # None /\ rcvd' # rcvd)
            => model_time' = model_time]_vars

\* C14: model_time is None until the first ParameterUpdate carrying a counter
\* is received and from then on is the counter of the last one received:
\* every such receipt overwrites it; sending leaves it unchanged (the reply
\* carries model_time + 1, the stored value stays); it never returns to None
CounterLifecycle ==
    /\ [](variant = "active" => model_time = LastCounter)
    /\ [][(variant = "active" /\ sent' # sent) => model_time' = model_time]_vars
    /\ [][(variant = "active" /\ model_time # None) => model_time' # None]_vars

\* two rounds: counter 2 received and 3 sent, then counter 0 received, which
\* replaced the stored 2
CounterLifecycleWitness ==
    /\ variant = "active"
    /\ Len(RcvdCounted) = 2
    /\ RcvdCounted[1].payload[2] = 2
    /\ RcvdCounted[2].payload[2] = 0
    /\ Len(SentUpdates) = 1
    /\ SentUpdates[1].payload[2] = 3
    /\ model_time = 0

(* ------------------- properties: codec, the scatter --------------------- *)

\* the sum of values[j] over the j with indices[j] = pos
SumAt(values, indices, pos) ==
    LET hits == {j \in 1..Len(indices) : indices[j] = pos}
        RECURSIVE SumOver(_)
        SumOver(js) ==
            IF js = {} THEN 0
            ELSE LET j == CHOOSE x \in js : TRUE IN values[j] + SumOver(js \ {j})
    IN  SumOver(hits)

\* C15: decompress of any (values, indices) payload under a registered
\* context returns the array whose element at each position p is the sum of
\* all values[j] with indices[j] = p, 0 where no index names p: an index that
\* occurs twice contributes both values
AccumulatingScatter ==
    (op = "decompress_any" /\ out.raised = "none") =>
        /\ out.dense.shape = out.wire.shape
        /\ Len(out.dense.data) = Numel(out.wire.shape)
        /\ \A p \in 0..(Numel(out.wire.shape) - 1) :
              out.dense.data[p + 1] = SumAt(out.wire.values, out.wire.indices, p)

\* position 1 of three named twice, with the values 2 and -1: it holds 1
AccumulatingScatterWitness ==
    /\ op = "decompress_any"
    /\ out.raised = "none"
    /\ out.wire.indices = <<1, 1>>
    /\ out.wire.values = <<2, -1>>
    /\ out.dense.data = <<0, 1, 0>>

(* ------------- properties: the active client's SYNC state --------------- *)

\* C18: the active client is about to train or to synchronize only after it
\* received a ParameterUpdate and stored that envelope's counter in the same
\* iteration: model_time is then the counter just received, never None, and
\* synchronize never fails on None + 1
SyncAfterCounterStored ==
    variant = "active" =>
        /\ pc \in {"train", "sync"} =>
              /\ rcvd # <<>>
              /\ IsCounted(rcvd[Len(rcvd)])
              /\ model_time = rcvd[Len(rcvd)].payload[2]
              /\ model_time # None
        /\ err # "TypeError"

\* the active client in SYNC in its second round, holding the counter of the
\* second ParameterUpdate
SyncAfterCounterStoredWitness ==
    /\ variant = "active"
    /\ pc = "sync"
    /\ Len(RcvdCounted) = 2
    /\ Len(trained) = 2
    /\ model_time = 1
    /\ RcvdCounted[1].payload[2] = 3

(* --------------- properties: the passive client's close ----------------- *)

\* C19: in the passive run() the connection is closed exactly when main_loop
\* ended through Exit: once, after the loop; on an error raised by the
\* dispatch, by receive, train or send, run() is left by the exception and
\* close is never called
CloseOnlyAfterExit ==
    /\ [](variant = "passive" =>
            /\ closed \in {0, 1}
            /\ closed = 1 <=> pc = "stopped"
            /\ pc \in {"close", "stopped"} => (ExitReceived /\ err = "none")
            /\ pc = "error" => (closed = 0 /\ err # "none"))
    /\ [][(variant = "passive" /\ pc = "error") => (pc' = "error" /\ closed' = 0)]_vars
    /\ (variant = "passive" /\ ExitReceived) ~> (closed = 1)

\* the passive client trained one round, received Exit and closed once
CloseOnlyAfterExitWitness ==
    /\ variant = "passive"
    /\ Len(trained) = 1
    /\ ExitReceived
    /\ closed = 1
    /\ err = "none"

(* ------------ properties: the active client, short payload -------------- *)

\* the last envelope received is a ParameterUpdate of fewer than two contents
ShortUpdateLast ==
    /\ rcvd # <<>>
    /\ rcvd[Len(rcvd)].kind = "ParameterUpdate"
    /\ Len(rcvd[Len(rcvd)].payload) < 2

\* C20: when the active client receives a ParameterUpdate with fewer than two
\* payload contents, the loop fails in the unpacking, before train is called:
\* model_time keeps the value it had, nothing is trained, and neither a
\* ParameterUpdate nor another ParameterRequest is sent
ShortUpdateFails ==
    /\ [][(variant = "active" /\ rcvd' # rcvd /\ ShortUpdateLast')
            => /\ pc' = "error"
               /\ err' = "IndexError"
               /\ model_time' = model_time
               /\ trained' = trained
               /\ sent' = sent]_vars
    /\ []((variant = "active" /\ ShortUpdateLast) =>
            /\ pc = "error"
            /\ model_time = LastCounter
            /\ Len(trained) = Len(RcvdCounted)
            /\ Len(SentUpdates) = Len(RcvdCounted)
            /\ Len(SentRequests) = Len(rcvd)
            /\ IsRequest(sent[Len(sent)]))

\* a full round with counter 2, then a ParameterUpdate that carries the
\* parameters only: the loop failed with the counter still 2
ShortUpdateFailsWitness ==
    /\ variant = "active"
    /\ Len(rcvd) = 2
    /\ rcvd[1].payload = <<0, 2>>
    /\ rcvd[2].kind = "ParameterUpdate"
    /\ rcvd[2].payload = <<0>>
    /\ pc = "error"
    /\ model_time = 2
    /\ Len(trained) = 1

(* --------------- properties: processes and their channels --------------- *)

\* a ParameterUpdate that the class of rank c unpacks: [parameters] for the
\* passive one, [parameters, counter] for the active one
Unpacks(c, e) ==
    /\ e.kind = "ParameterUpdate"
    /\ Len(e.payload) >= (IF role[c] = "active" THEN 2 ELSE 1)

\* rank 0 has sent Exit to rank c, behind nothing but such ParameterUpdates
ExitQueued(c) ==
    \E i \in 1..Len(inbox[c]) :
        /\ inbox[c][i].kind = "Exit"
        /\ \A j \in 1..(i - 1) : Unpacks(c, inbox[c][j])

InLoop(c) == loc[c] \in {"request", "await", "train", "sync"}

CounterPrivacy ==
    /\ [][\A c \in procs :
            (loc[c] = "sync" /\ loc'[c] # "sync") =>
                /\ Unpacks(c, got[c])
                /\ outbox'[c] = Package("ParameterUpdate",
                                        <<got[c].payload[1], got[c].payload[2] + 1>>)]_vars
    /\ [][\A c \in procs :
            (got'[c] # got[c] \/ inbox'[c] # inbox[c]) =>
                \A d \in procs \ {c} :
                    /\ loc'[d] = loc[d]
                    /\ times'[d] = times[d]
                    /\ got'[d] = got[d]
                    /\ inbox'[d] = inbox[d]
                    /\ outbox'[d] = outbox[d]]_vars
    /\ [](\A c \in procs : got[c].kind = "ParameterUpdate" => times[c] = got[c].payload[2])

\* client 2 received counter 2 and sent 3; client 1 received counter 0 after
\* that and is about to send: it holds 0
CounterPrivacyWitness ==
    /\ procs = {1, 2}
    /\ role = [c \in Ranks |-> "active"]
    /\ got[2].payload = <<0, 2>>
    /\ outbox[2] = Package("ParameterUpdate", <<0, 3>>)
    /\ got[1].payload = <<0, 0>>
    /\ loc[1] = "sync"
    /\ times[1] = 0
    /\ times[2] = 2

====
